---- MODULE Spec2Model ----
(***************************************************************************)
(* hardmax (python/tvm/topi/tensor.py): construction of the kernel by      *)
(* _hardmax through the IR builder, followed by the execution of the built *)
(* kernel on concrete buffers.                                             *)
(*                                                                         *)
(* Element values are float32 values under their order: NegInf is          *)
(* -float("inf"), Zero and One are the stored constants 0.0 and 1.0.       *)
(* Offsets are 0-based as in the source; shapes are 1-based sequences.     *)
(***************************************************************************)
EXTENDS Integers, Sequences, FiniteSets, TLC

MaxRank == 3
MaxDim == 2
MaxElems == 8
MaxAxis == 5

NegInf == -1
Zero == 0
One == 1
\* content of an output cell no store has reached yet
Uninit == -2

Values == {NegInf, Zero, One}
\* the element values a bound input buffer is drawn from
InputValues == {NegInf, One}

VARIABLES shape, axis, pc, emitted, err, ax, out_size, outer_size,
          inner_size, cnt, input, out, zi, i, k, j, temp, temp1, updated,
          stores, oob, pass

vars == <<shape, axis, pc, emitted, err, ax, out_size, outer_size,
          inner_size, cnt, input, out, zi, i, k, j, temp, temp1, updated,
          stores, oob, pass>>

buildVars == <<emitted, err, ax, out_size, outer_size, inner_size, cnt>>
runVars == <<input, out, zi, i, k, j, temp, temp1, updated, stores, oob, pass>>

\* utils.prod
prod(s) ==
    LET f[n \in 0..Len(s)] == IF n = 0 THEN 1 ELSE f[n - 1] * s[n]
    IN f[Len(s)]

Shapes ==
    {s \in UNION {[1..r -> 0..MaxDim] : r \in 1..MaxRank} : prod(s) <= MaxElems}

Axes == (0 - MaxAxis)..MaxAxis

\* lines 102-105: only the literal -1 is rewritten
NormalizeAxisAlt(a, r) == a
NormalizeAxis(a, r) == IF a = -1 THEN r - 1 ELSE a

\* lines 111-114
OuterSize(s, a) ==
    LET f[n \in 0..Len(s)] ==
            IF n = 0 THEN 1
            ELSE IF n - 1 < a THEN f[n - 1] * s[n] ELSE f[n - 1]
    IN f[Len(s)]

\* lines 116-119
InnerSize(s, a) ==
    LET f[n \in 0..Len(s)] ==
            IF n = 0 THEN 1
            ELSE IF n - 1 > a THEN f[n - 1] * s[n] ELSE f[n - 1]
    IN f[Len(s)]

\* line 121: Python tuple indexing, which accepts -len..len-1
SubscriptOk(s, a) == a >= 0 - Len(s) /\ a <= Len(s) - 1
Subscript(s, a) == IF a >= 0 THEN s[a + 1] ELSE s[Len(s) + a + 1]

\* line 106
OutSizeAlt(s) == prod(s) - 1
OutSize(s) == prod(s)

\* line 125
InitOffsetAlt(ii, kk, inner, c) == 0
InitOffsetStale(ii, kk, inner, c) == kk
InitOffsetNoCnt(ii, kk, inner, c) == ii * inner + kk
InitOffset(ii, kk, inner, c) == ii * inner * c + kk

\* line 127
IndexAlt(ii, jj, kk, inner, c) == ii * inner * c + (jj + 1) * inner + kk
Index(ii, jj, kk, inner, c) == ii * inner * c + jj * inner + kk

\* line 128
GreaterAlt(a, b) == a >= b
Greater(a, b) == a > b

InRange(off) == off >= 0 /\ off < prod(shape)

Init ==
    /\ shape \in Shapes
    /\ axis \in Axes
    /\ pc = "create"
    /\ emitted = <<>>
    /\ err = "none"
    /\ ax = 0
    /\ out_size = 0
    /\ outer_size = 0
    /\ inner_size = 0
    /\ cnt = 0
    /\ input = <<>>
    /\ out = <<>>
    /\ zi = 0
    /\ i = 0
    /\ k = 0
    /\ j = 0
    /\ temp = NegInf
    /\ temp1 = 0
    /\ updated = FALSE
    /\ stores = <<>>
    /\ oob = FALSE
    /\ pass = 0

\* lines 96-100
Allocate ==
    /\ pc = "create"
    /\ emitted' = <<"allocate temp_data", "allocate temp1_data">>
    /\ pc' = "axis"
    /\ UNCHANGED <<shape, axis, err, ax, out_size, outer_size, inner_size, cnt>>
    /\ UNCHANGED runVars

\* lines 101-105
SetAxis ==
    /\ pc = "axis"
    /\ ax' = NormalizeAxis(axis, Len(shape))
    /\ pc' = "emit_zero"
    /\ UNCHANGED <<shape, axis, emitted, err, out_size, outer_size, inner_size, cnt>>
    /\ UNCHANGED runVars

\* lines 106-109
EmitZeroFill ==
    /\ pc = "emit_zero"
    /\ out_size' = OutSize(shape)
    /\ emitted' = Append(emitted, "for i: out[i] = 0.0")
    /\ pc' = "sizes"
    /\ UNCHANGED <<shape, axis, err, ax, outer_size, inner_size, cnt>>
    /\ UNCHANGED runVars

\* lines 111-119
ComputeSizes ==
    /\ pc = "sizes"
    /\ outer_size' = OuterSize(shape, ax)
    /\ inner_size' = InnerSize(shape, ax)
    /\ pc' = "cnt"
    /\ UNCHANGED <<shape, axis, emitted, err, ax, out_size, cnt>>
    /\ UNCHANGED runVars

\* line 121
ReadCnt ==
    /\ pc = "cnt"
    /\ IF SubscriptOk(shape, ax)
       THEN /\ cnt' = Subscript(shape, ax)
            /\ pc' = "emit_scan"
            /\ err' = err
       ELSE /\ err' = "IndexError"
            /\ pc' = "failed"
            /\ cnt' = cnt
    /\ UNCHANGED <<shape, axis, emitted, ax, out_size, outer_size, inner_size>>
    /\ UNCHANGED runVars

\* lines 122-132
EmitScan ==
    /\ pc = "emit_scan"
    /\ emitted' = Append(emitted, "for i0, k: scan j; out[temp1[0]] = 1.0")
    /\ pc' = "seal"
    /\ UNCHANGED <<shape, axis, err, ax, out_size, outer_size, inner_size, cnt>>
    /\ UNCHANGED runVars

\* line 134
Seal ==
    /\ pc = "seal"
    /\ pc' = "sealed"
    /\ UNCHANGED <<shape, axis>>
    /\ UNCHANGED buildVars
    /\ UNCHANGED runVars

FreshOut == [n \in 0..(prod(shape) - 1) |-> Uninit]

\* lines 136-141: the extern node runs the kernel on the bound buffers
Bind ==
    /\ pc = "sealed"
    /\ input' \in [0..(prod(shape) - 1) -> InputValues]
    /\ out' = FreshOut
    /\ pass' = 1
    /\ pc' = "zero"
    /\ zi' = 0
    /\ stores' = <<>>
    /\ UNCHANGED <<shape, axis, i, k, j, temp, temp1, updated, oob>>
    /\ UNCHANGED buildVars

\* lines 108-109
ZeroFill ==
    /\ pc = "zero"
    /\ IF zi < out_size
       THEN /\ out' = [out EXCEPT ![zi] = Zero]
            /\ oob' = oob
            /\ stores' = Append(stores, <<zi, Zero>>)
            /\ zi' = zi + 1
            /\ UNCHANGED <<pc, i>>
       ELSE /\ pc' = "outer"
            /\ i' = 0
            /\ UNCHANGED <<out, oob, stores, zi>>
    /\ UNCHANGED <<shape, axis, input, k, j, temp, temp1, updated, pass>>
    /\ UNCHANGED buildVars

\* line 122
OuterLoop ==
    /\ pc = "outer"
    /\ IF i < outer_size
       THEN /\ k' = 0
            /\ pc' = "inner"
       ELSE /\ pc' = "done"
            /\ k' = k
    /\ UNCHANGED <<shape, axis, input, out, zi, i, j, temp, temp1, updated,
                   stores, oob, pass>>
    /\ UNCHANGED buildVars

\* lines 123-125
InnerLoop ==
    /\ pc = "inner"
    /\ IF k < inner_size
       THEN /\ temp' = NegInf
            /\ temp1' = InitOffset(i, k, inner_size, cnt)
            /\ updated' = FALSE
            /\ j' = 0
            /\ pc' = "scan"
            /\ i' = i
       ELSE /\ i' = i + 1
            /\ pc' = "outer"
            /\ UNCHANGED <<temp, temp1, updated, j>>
    /\ UNCHANGED <<shape, axis, input, out, zi, k, stores, oob, pass>>
    /\ UNCHANGED buildVars

\* lines 126-130
Scan ==
    /\ pc = "scan"
    /\ j < cnt
    /\ LET index == Index(i, j, k, inner_size, cnt)
       IN /\ InRange(index)
          /\ IF Greater(input[index], temp)
             THEN /\ temp1' = index
                  /\ temp' = input[index]
                  /\ updated' = TRUE
             ELSE UNCHANGED <<temp, temp1, updated>>
    /\ j' = j + 1
    /\ UNCHANGED <<shape, axis, pc, input, out, zi, i, k, stores, oob, pass>>
    /\ UNCHANGED buildVars

\* line 128 with an index outside the input buffer: the load reads foreign
\* memory or traps; from there on the behaviour of the process is undefined
\* and the model follows it no further
ScanOutOfBounds ==
    /\ pc = "scan"
    /\ j < cnt
    /\ ~InRange(Index(i, j, k, inner_size, cnt))
    /\ pc' = "undefined"
    /\ oob' = TRUE
    /\ UNCHANGED <<shape, axis, input, out, zi, i, k, j, temp, temp1, updated,
                   stores, pass>>
    /\ UNCHANGED buildVars

\* line 132
StoreOne ==
    /\ pc = "scan"
    /\ j >= cnt
    /\ InRange(temp1)
    /\ out' = [out EXCEPT ![temp1] = One]
    /\ stores' = Append(stores, <<temp1, One>>)
    /\ k' = k + 1
    /\ pc' = "inner"
    /\ UNCHANGED <<shape, axis, input, zi, i, j, temp, temp1, updated, oob, pass>>
    /\ UNCHANGED buildVars

\* line 132 with temp1[0] outside the output buffer: the store overwrites
\* foreign memory or traps; the behaviour is undefined from there on
StoreOutOfBounds ==
    /\ pc = "scan"
    /\ j >= cnt
    /\ ~InRange(temp1)
    /\ stores' = Append(stores, <<temp1, One>>)
    /\ pc' = "undefined"
    /\ oob' = TRUE
    /\ UNCHANGED <<shape, axis, input, out, zi, i, k, j, temp, temp1, updated,
                   pass>>
    /\ UNCHANGED buildVars

\* hardmax(hardmax(x), axis): the same kernel run on its own output
Reapply ==
    /\ pc = "done"
    /\ pass = 1
    /\ input' = out
    /\ out' = FreshOut
    /\ pass' = 2
    /\ pc' = "zero"
    /\ zi' = 0
    /\ stores' = <<>>
    /\ UNCHANGED <<shape, axis, i, k, j, temp, temp1, updated, oob>>
    /\ UNCHANGED buildVars

Next ==
    \/ Allocate
    \/ SetAxis
    \/ EmitZeroFill
    \/ ComputeSizes
    \/ ReadCnt
    \/ EmitScan
    \/ Seal
    \/ Bind
    \/ ZeroFill
    \/ OuterLoop
    \/ InnerLoop
    \/ Scan
    \/ ScanOutOfBounds
    \/ StoreOne
    \/ StoreOutOfBounds
    \/ Reapply

Spec == Init /\ [][Next]_vars

TypeOK ==
    /\ shape \in Shapes
    /\ axis \in Axes
    /\ pass \in 0..2
    /\ pc \in {"create", "axis", "emit_zero", "sizes", "cnt", "emit_scan",
               "seal", "sealed", "failed", "zero", "outer", "inner", "scan",
               "done", "undefined"}
    /\ temp \in Values
    /\ pc = "done" => \A p \in DOMAIN out : out[p] \in {Zero, One}

(***************************************************************************)
(* Vocabulary of the properties: row-major addressing of the tensor,       *)
(* independent of the offsets the kernel computes.                         *)
(***************************************************************************)
Rank == Len(shape)
ElementCount == prod(shape)
Offsets == 0..(ElementCount - 1)
PositiveShape == \A d \in 1..Rank : shape[d] > 0
NonPositiveShape == \E d \in 1..Rank : shape[d] <= 0
ValidAxis == axis \in 0..(Rank - 1)
\* the axes the code brings into 0..rank-1: those and the literal -1
HandledAxis == axis \in (0 - 1)..(Rank - 1)
AxisOutside == axis >= Rank \/ axis < 0 - Rank
Built == {"sealed", "zero", "outer", "inner", "scan", "done", "undefined"}
SizesRead == {"emit_scan", "seal"} \cup Built

\* row-major strides: the stride of the last dimension is 1
Stride(d) == prod(SubSeq(shape, d + 1, Rank))
\* position of offset p along axis a, and the line (all other coordinates
\* fixed) it lies on
Pos(p, a) == (p \div Stride(a + 1)) % shape[a + 1]
SameLine(p, q, a) ==
    /\ p % Stride(a + 1) = q % Stride(a + 1)
    /\ p \div (Stride(a + 1) * shape[a + 1]) = q \div (Stride(a + 1) * shape[a + 1])
Line(p, a) == {q \in Offsets : SameLine(p, q, a)}
IsFirstMax(p, a) ==
    \A q \in Line(p, a) :
        /\ input[q] <= input[p]
        /\ Pos(q, a) < Pos(p, a) => input[q] < input[p]
OneHotOfFirstMax(a) ==
    \A p \in Offsets :
        /\ out[p] = IF IsFirstMax(p, a) THEN One ELSE Zero
        /\ Cardinality({q \in Line(p, a) : out[q] = One}) = 1

\* C1: for a shape of positive extents and an axis in [0, rank-1], the
\* finished kernel leaves, on every line along the axis, exactly one 1.0 and
\* 0.0 elsewhere, the 1.0 at the lowest index where the line attains its
\* maximum.
C1_OneHotAtFirstMax ==
    (pc = "done" /\ PositiveShape /\ ValidAxis) => OneHotOfFirstMax(axis)

C1_Witness ==
    /\ PositiveShape /\ ValidAxis /\ pc = "done" /\ pass = 1
    /\ outer_size >= 2 /\ inner_size >= 2
    /\ \E p, q \in Offsets :
        /\ p # q /\ SameLine(p, q, axis) /\ IsFirstMax(p, axis)
        /\ input[q] = input[p] /\ input[p] > NegInf

\* C2: every negative axis a in [-r, -1] is normalized to a + r before the
\* sizes are computed, so the kernel has the outer_size, inner_size and
\* axis_extent of axis a + r.
C2_NegativeAxisNormalized ==
    (PositiveShape /\ axis < 0 /\ axis >= 0 - Rank /\ pc \in SizesRead) =>
        /\ outer_size = OuterSize(shape, axis + Rank)
        /\ inner_size = InnerSize(shape, axis + Rank)
        /\ cnt = shape[axis + Rank + 1]

\* C3: an axis whose normalized value is outside [0, rank-1] makes the
\* construction fail, and it fails before any statement has been emitted.
C3_AxisFailsBeforeEmission ==
    (PositiveShape /\ AxisOutside) =>
        /\ pc \notin Built
        /\ pc = "failed" => emitted = <<>>

\* C4: a shape with a non-positive dimension is rejected at construction
\* time before any statement is emitted: no kernel is ever built for it and
\* none stores 1.0 into an empty output buffer.
C4_InvalidShapeRejected ==
    (NonPositiveShape /\ HandledAxis) =>
        /\ pc \notin Built
        /\ pc = "failed" => emitted = <<>>
        /\ \A n \in 1..Len(stores) : stores[n][2] = One => InRange(stores[n][1])

\* C5: for a shape of positive extents and an axis in [0, rank-1], every
\* index the kernel loads from or stores to lies in [0, element_count), with
\* element_count = outer_size * inner_size * axis_extent.
C5_IndicesInBounds ==
    (PositiveShape /\ ValidAxis) =>
        /\ ~oob
        /\ pc \in Built \ {"sealed"} =>
            ElementCount = outer_size * inner_size * cnt
        /\ (pc = "zero" /\ zi < out_size) => InRange(zi)
        /\ (pc = "scan" /\ j < cnt) =>
                InRange(i * inner_size * cnt + j * inner_size + k)
        /\ (pc = "scan" /\ j >= cnt) => InRange(temp1)

C5_Witness ==
    /\ PositiveShape /\ ValidAxis /\ pc = "scan" /\ j = cnt
    /\ outer_size >= 2 /\ inner_size >= 2 /\ cnt >= 2
    /\ temp1 = ElementCount - 1

\* C6: applying hardmax to its own output along the same axis gives that
\* output back.
C6_Idempotent ==
    (PositiveShape /\ HandledAxis /\ pass = 2 /\ pc = "done") => out = input

C6_Witness ==
    /\ PositiveShape /\ HandledAxis /\ pass = 2 /\ pc = "done"
    /\ cnt >= 2 /\ outer_size * inner_size >= 2
    /\ \E p \in Offsets : out[p] = One /\ Pos(p, ax) >= 1

\* C7: axis -1 builds the kernel of axis r-1 (the same outer_size,
\* inner_size = 1, axis_extent = the last dimension) and gives the output of
\* axis r-1.
C7_LastAxis ==
    (PositiveShape /\ axis = 0 - 1) =>
        /\ pc \in SizesRead =>
            /\ outer_size = prod(SubSeq(shape, 1, Rank - 1))
            /\ inner_size = 1
            /\ cnt = shape[Rank]
        /\ pc = "done" => OneHotOfFirstMax(Rank - 1)

C7_Witness ==
    /\ PositiveShape /\ axis = 0 - 1 /\ pc = "done" /\ pass = 1
    /\ Rank >= 2 /\ outer_size >= 2 /\ cnt >= 2
    /\ \E p \in Offsets : out[p] = One /\ Pos(p, Rank - 1) >= 1

\* C8: when the extent of the selected axis is 1, the finished kernel leaves
\* 1.0 at every position, whatever the input.
C8_ExtentOneAllOnes ==
    (PositiveShape /\ SubscriptOk(shape, axis) /\ Subscript(shape, axis) = 1
        /\ pc = "done") => \A p \in Offsets : out[p] = One

C8_Witness ==
    /\ PositiveShape /\ ValidAxis /\ shape[axis + 1] = 1
    /\ pc = "done" /\ pass = 1 /\ ElementCount >= 4
    /\ \A p \in Offsets : input[p] = NegInf

OneStores == {n \in 1..Len(stores) : stores[n][2] = One}
PairsDone ==
    IF pc = "done" THEN outer_size * inner_size
    ELSE IF pc = "outer" THEN i * inner_size
    ELSE i * inner_size + k

C9_StoreLog ==
    (PositiveShape /\ HandledAxis) =>
        /\ pc = "zero" =>
            /\ Len(stores) = zi
            /\ \A n \in 1..Len(stores) : stores[n] = <<n - 1, Zero>>
        /\ pc \in {"outer", "inner", "scan", "done"} =>
            /\ out_size = outer_size * inner_size * cnt
            /\ out_size = ElementCount
            /\ Len(stores) >= out_size
            /\ \A n \in 1..out_size : stores[n] = <<n - 1, Zero>>
            /\ \A n \in (out_size + 1)..Len(stores) : stores[n][2] = One
            /\ Cardinality(OneStores) = PairsDone
            /\ Cardinality({stores[n][1] : n \in OneStores}) = PairsDone

\* steps the kernel still has to take: one per zero-fill store and loop
\* exit, cnt + 2 per line, two more per outer iteration
LineSteps == cnt + 2
OuterSteps == inner_size * LineSteps + 2
StepsLeft ==
    CASE pc = "zero" -> (out_size - zi) + outer_size * OuterSteps + 2
      [] pc = "outer" -> (outer_size - i) * OuterSteps + 1
      [] pc = "inner" -> (inner_size - k) * LineSteps
                            + (outer_size - i - 1) * OuterSteps + 2
      [] pc = "scan" -> (cnt - j) + (inner_size - k - 1) * LineSteps
                            + (outer_size - i - 1) * OuterSteps + 3
      [] OTHER -> 0

C9_Running ==
    (PositiveShape /\ HandledAxis /\ pc \in {"zero", "outer", "inner", "scan"}) =>
        /\ StepsLeft > 0
        /\ ENABLED (ZeroFill \/ OuterLoop \/ InnerLoop \/ Scan \/ StoreOne)

C9_StoreStep ==
    (PositiveShape /\ HandledAxis) =>
        /\ (Len(stores') > Len(stores) /\ stores'[Len(stores')][2] = One) =>
            /\ pc = "scan" /\ j = cnt
            /\ zi = out_size /\ Len(stores) >= ElementCount
        /\ (pc \in {"zero", "outer", "inner", "scan"} /\ pass' = pass) =>
            /\ StepsLeft' < StepsLeft
            /\ pc' \in {"zero", "outer", "inner", "scan", "done"}

\* C9: the zero-fill writes 0.0 to every output element and completes
\* before the first 1.0 is stored; afterwards no 0.0 is stored; each (i, k)
\* pair gets exactly one 1.0 store, after the scan of its line has finished;
\* the kernel then terminates (every step is enabled until the end and
\* lowers the number of steps left), with outer_size * inner_size stores of
\* 1.0 to pairwise distinct offsets.
C9_StoreOrdering ==
    /\ [](C9_StoreLog /\ C9_Running)
    /\ [][C9_StoreStep]_vars

C9_Witness ==
    /\ PositiveShape /\ HandledAxis /\ pc = "done" /\ pass = 1
    /\ outer_size >= 2 /\ inner_size >= 2 /\ cnt >= 2
    /\ Len(stores) = ElementCount + outer_size * inner_size

LineOffset(jj) == i * inner_size * cnt + jj * inner_size + k

\* C10: during the scan of the line of (i, k), after the first j elements
\* have been examined, temp1[0] is an offset of that line; it is the offset
\* of the lowest-index maximum of the examined elements when one of them is
\* above negative infinity and the line's j = 0 offset otherwise; and once
\* an update has occurred temp[0] is the input element at temp1[0].
C10_ScanInvariant ==
    (PositiveShape /\ HandledAxis /\ pc = "scan") =>
        /\ \E jj \in 0..(cnt - 1) : temp1 = LineOffset(jj)
        /\ IF \E jj \in 0..(j - 1) : input[LineOffset(jj)] > NegInf
           THEN \E jm \in 0..(j - 1) :
                    /\ temp1 = LineOffset(jm)
                    /\ \A jj \in 0..(j - 1) :
                        /\ input[LineOffset(jj)] <= input[LineOffset(jm)]
                        /\ jj < jm => input[LineOffset(jj)] < input[LineOffset(jm)]
           ELSE temp1 = LineOffset(0)
        /\ updated => temp = input[temp1]
        /\ ~updated => temp = NegInf

C10_Witness ==
    /\ PositiveShape /\ HandledAxis /\ pc = "scan" /\ pass = 1
    /\ i >= 1 /\ k >= 1 /\ cnt >= 2 /\ j = cnt /\ ~updated
    /\ \E p \in Offsets : input[p] > NegInf
====
